---- MODULE Spec2Model ----
(***************************************************************************)
(* A model of beamer-preview.py: the line splitter (parse_slides), the     *)
(* content-addressed cache check (slide_hash, has_changed), the per-slide  *)
(* compile job (compile_slide) run by a multiprocessing pool, and the      *)
(* merge of the per-slide artifacts (merge_slides), driven by              *)
(* create_slides.                                                          *)
(*                                                                         *)
(* Texts.  The source is read with open(texfile).read().split("\n")        *)
(* (line 284): text mode translates every CR and CRLF to "\n", so a line   *)
(* holds neither "\n" nor "\r", and what compile_slide writes to a         *)
(* side-car is read back unchanged by has_changed.  A line is modelled by  *)
(* the string itself; header, footer and slide are sequences of lines,     *)
(* each line standing for the line followed by "\n", exactly as the code   *)
(* appends tex[i] + "\n".  String concatenation is sequence                *)
(* concatenation.                                                          *)
(***************************************************************************)
EXTENDS Naturals, Sequences, FiniteSets, TLC

VARIABLES
    doc,        \* the source file: the lines open(texfile).read().split("\n") yields
    args,       \* the parsed command line (global args)
    ps,         \* the locals of parse_slides while it runs line by line
    pline,      \* the loop index i of parse_slides, 1-based; Len(doc)+1 once the loop is over
    bad,        \* the external compiler: the lines it cannot compile
    dir,        \* the directory args.prefix: file name -> content
    out,        \* the file args.out
    pc,         \* where create_slides is: "idle", "pool", "done", "aborted"
    loc,        \* the locals of create_slides in the current (or last) pass
    job,        \* the pool: for each element of recompile, where its compile_slide is
    prev,       \* what the pass before the current one left (history)
    passes,     \* the number of passes started
    faults      \* the number of file-system calls that have failed

parseVars == <<ps, pline>>
buildVars == <<bad, dir, out, pc, loc, job, prev, passes, faults>>
vars == <<doc, args, ps, pline, bad, dir, out, pc, loc, job, prev, passes, faults>>

-----------------------------------------------------------------------------
(* Bounds *)

\* the longest document the splitter is run on, in lines
MaxLines == 4
\* the most slides a document of a build pass holds
MaxUnits == 3
\* the most passes (runs of create_slides) in a behaviour
MaxPasses == 2
\* the most file-system calls that fail in a behaviour
MaxFaults == 1
\* the number of slides of the long document, which fills more than one chunk
\* of the pool's task queue
LongUnits == 5
\* the most slides of the documents that are run on two workers in every
\* combination of slides
PoolUnits == 2
\* the number of slides of the wide document, which has more slides than the
\* pool has workers
WideUnits == 3

-----------------------------------------------------------------------------
(* Lines and the regular expressions of parse_slides *)

DocBeginLine   == "\\begin{document}"
DocEndLine     == "\\end{document}"
FrameBeginLine == "\\begin{frame}"
FrameEndLine   == "\\end{frame}"
SectionLine    == "\\section{A}"
TitleLine      == "\\maketitle"
MacroLine      == "\\imageslide{x}"
OpenLine       == "{"
CloseLine      == "}"
BlankLine      == ""

\* the lines documents are made of
Lines == {DocBeginLine, DocEndLine, FrameBeginLine, FrameEndLine, SectionLine,
          TitleLine, MacroLine, OpenLine, CloseLine, BlankLine, "a", "b"}

\* re.match(r"\s*\\begin\s*\{\s*document\s*\}", l)
IsDocBegin(l) == l = DocBeginLine
\* re.match(r"\s*\{\s*", l)
IsOpen(l) == l = OpenLine
\* re.match(r"\s*\}\s*", l)
IsClose(l) == l = CloseLine
\* re.match(r"\s*\\begin\s*\{\s*frame\s*\}", l)
IsFrameBegin(l) == l = FrameBeginLine
\* re.match(r"\s*\\section\s*{\s*\w*", l)
IsSection(l) == l = SectionLine
\* re.match(r"\s*\\maketitle", l)
IsMakeTitle(l) == l = TitleLine
\* re.match(r"\s*\\end\s*{\s*frame\s*}", l)
IsFrameEnd(l) == l = FrameEndLine

\* single_slide_macro(tex): "\section{" and "\imageslide{" are among its patterns,
\* "\maketitle" alone is not ("\maketitle{" is)
single_slide_macro(l) == l \in {SectionLine, MacroLine}

\* len(s.strip()) == 0 for a text s given as its lines
IsBlankText(s) == \A k \in 1..Len(s) : s[k] = BlankLine

-----------------------------------------------------------------------------
(* parse_slides *)

\* the locals of parse_slides before the loop; log collects what error() and
\* logger.warning() report, aborted is the AbortException raised by error()
ParseInit ==
    [header |-> <<>>, footer |-> <<>>, slide |-> <<>>, slides |-> <<>>,
     in_header |-> TRUE, in_slide |-> FALSE, slide_wrapper |-> FALSE,
     log |-> <<>>, aborted |-> FALSE]

\* error() as it would be if it only logged
error_logs(s, msg, n, ignore) == [s EXCEPT !.log = Append(@, <<msg, n>>)]

\* error(msg): logs, and raises AbortException unless args.ignore_errors
error(s, msg, n, ignore) ==
    [s EXCEPT !.log = Append(@, <<msg, n>>), !.aborted = ~ignore]

\* lines 200-205: a line that reaches the end of the loop body
ParseTail(s, l) ==
    IF s.aborted THEN s
    ELSE IF ~s.in_slide /\ ~s.slide_wrapper /\ s.in_header
         THEN [s EXCEPT !.header = Append(@, l)]
    ELSE IF ~s.in_slide /\ ~s.slide_wrapper /\ ~s.in_header
         THEN [s EXCEPT !.footer = Append(@, l)]
    ELSE s

\* lines 156-175: a one-line slide (\section, \maketitle); what names the error
ParseSingle(s, l, n, ignore, what) ==
    LET t == [s EXCEPT !.in_header = FALSE] IN
    IF ~t.in_slide
    THEN LET u == [t EXCEPT !.slide = <<>>]
             v == IF IsBlankText(<<l>>)
                  THEN error(u, "frame without content", n, ignore) ELSE u
         IN  IF v.aborted THEN v ELSE [v EXCEPT !.slides = Append(@, <<l>>)]
    ELSE ParseTail(error(t, what, n, ignore), l)

\* lines 176-188: \end{frame}
ParseFrameEnd(s, l, n, ignore) ==
    IF ~s.in_slide
    THEN ParseTail(error(s, "frame end without frame begin", n, ignore), l)
    ELSE LET t == [s EXCEPT !.in_slide = FALSE, !.slide = Append(@, l)]
             u == IF IsBlankText(t.slide)
                  THEN error(t, "frame without content", n, ignore) ELSE t
         IN  IF u.aborted THEN u
             ELSE IF ~u.slide_wrapper
                  THEN [u EXCEPT !.slides = Append(@, u.slide),
                                 !.slide = <<>>, !.footer = <<>>]
             ELSE ParseTail(u, l)

\* lines 120-205: the loop body for line l, which is line number n
ParseLine(s, l, n, ignore) ==
    IF IsDocBegin(l)
    THEN [s EXCEPT !.in_header = FALSE,
                   !.header = IF ~s.in_slide THEN Append(@, l) ELSE @]
    ELSE IF IsOpen(l)
    THEN IF s.in_slide THEN [s EXCEPT !.slide = Append(@, l)]
         ELSE [s EXCEPT !.slide_wrapper = TRUE, !.slide = <<l>>]
    ELSE IF IsClose(l)
    THEN IF s.in_slide THEN [s EXCEPT !.slide = Append(@, l)]
         ELSE IF s.slide_wrapper
         THEN ParseTail([s EXCEPT !.slides = Append(@, Append(s.slide, l)),
                                  !.slide = <<>>, !.footer = <<>>,
                                  !.slide_wrapper = FALSE], l)
         ELSE ParseTail(error(s, "Unexpected closing brackets", n, ignore), l)
    ELSE IF IsFrameBegin(l)
    THEN IF ~s.in_slide
         THEN [s EXCEPT !.in_header = FALSE, !.slide = Append(@, l), !.in_slide = TRUE]
         ELSE ParseTail(error([s EXCEPT !.in_header = FALSE],
                              "frame inside frame", n, ignore), l)
    ELSE IF IsSection(l) THEN ParseSingle(s, l, n, ignore, "section inside frame")
    ELSE IF IsMakeTitle(l) THEN ParseSingle(s, l, n, ignore, "maketitle inside frame")
    ELSE IF IsFrameEnd(l) THEN ParseFrameEnd(s, l, n, ignore)
    ELSE IF single_slide_macro(l)
    THEN IF ~s.in_slide
         THEN [s EXCEPT !.slide = <<>>, !.slides = Append(@, <<l>>)]
         ELSE ParseTail(s, l)
    ELSE IF s.in_slide \/ s.slide_wrapper
         THEN [s EXCEPT !.slide = Append(@, l)]
         ELSE ParseTail(s, l)

\* lines 207-212: after the loop; line number 0 marks a report without a line
ParseEnd(s, ignore) ==
    LET t == IF s.in_slide THEN error(s, "Missing frame end", 0, ignore) ELSE s IN
    IF t.aborted THEN t
    ELSE IF t.in_header THEN [t EXCEPT !.log = Append(@, <<"No slides found", 0>>)]
    ELSE t

RECURSIVE ParseFrom(_, _, _, _)
ParseFrom(s, tex, i, ignore) ==
    IF s.aborted THEN s
    ELSE IF i > Len(tex) THEN ParseEnd(s, ignore)
    ELSE ParseFrom(ParseLine(s, tex[i], i, ignore), tex, i + 1, ignore)

\* parse_slides(tex): the record after the return, or with aborted set
parse_slides(tex, ignore) == ParseFrom(ParseInit, tex, 1, ignore)

-----------------------------------------------------------------------------
(* Texts, identifiers and files *)

Range(f) == {f[x] : x \in DOMAIN f}

\* "\\addtocounter{framenumber}{%d}" % nr: it is followed by the slide's first
\* line with no "\n" between the two
Counter(nr) == "\\addtocounter{framenumber}{" \o ToString(nr) \o "}"

\* build_slide as it would be if the slide were left out of the text
build_slide_frameless(header, slide, footer, nr) ==
    header \o (IF args.frames THEN <<Counter(nr)>> ELSE <<>>) \o footer

\* build_slide(header, slide, footer, nr)
build_slide(header, slide, footer, nr) ==
    header \o (IF args.frames THEN <<Counter(nr)>> ELSE <<>>) \o slide \o footer

\* slide_hash(content): SHA-256 is taken to be injective, so the digest is
\* modelled by the tagged content
slide_hash(content) == <<"sha256">> \o content

\* slide_name % h, and the same with ".tex" replaced by ".pdf"; the compiler's
\* log lies beside them
TexName(h) == [base |-> h, ext |-> "tex"]
PdfName(h) == [base |-> h, ext |-> "pdf"]
LogName(h) == [base |-> h, ext |-> "log"]

\* file contents
TexFile(text) == [kind |-> "tex", text |-> text]
PdfOf(text) == [kind |-> "pdf", text |-> text]
LogOf(text) == [kind |-> "log", text |-> text]
\* the built-in single page of line 259
Placeholder == [kind |-> "placeholder", text |-> <<>>]
\* a PDF file just opened with open(pdf, "wb") (line 258): it has no byte
Truncated == [kind |-> "truncated", text |-> <<>>]
\* the PDF of a text whose first bytes were overwritten by the built-in page:
\* the write of line 259 starts at offset 0 of a file the compiler has filled
\* in the meantime with a PDF longer than the built-in page
PlaceholderOver(text) == [kind |-> "placeholder+pdf", text |-> text]
\* the built-in page whose first bytes were overwritten by the PDF of a text:
\* the compiler writes a PDF shorter than the built-in page from offset 0 of a
\* file that line 259 has filled in the meantime
PdfOver(text) == [kind |-> "pdf+placeholder", text |-> text]

\* args.compiler is known by the size of the PDFs it writes, measured against
\* the 6570 bytes of the built-in page
Compilers == {"shorter", "longer"}

\* what the write of line 259, from offset 0, leaves in a file that holds c
PlaceholderOnto(c) ==
    IF c.kind \in {"pdf", "placeholder+pdf"} /\ args.compiler = "longer"
    THEN PlaceholderOver(c.text)
    ELSE Placeholder
\* what the compiler's write of the PDF of text, from offset 0, leaves in a
\* file that holds c
PdfOnto(c, text) ==
    IF c.kind \in {"placeholder", "pdf+placeholder"} /\ args.compiler = "shorter"
    THEN PdfOver(text)
    ELSE PdfOf(text)

Exists(d, f) == f \in DOMAIN d
WriteFile(d, f, c) == [g \in DOMAIN d \cup {f} |-> IF g = f THEN c ELSE d[g]]
RemoveFiles(d, fs) == [g \in DOMAIN d \ fs |-> d[g]]
EmptyDir == [g \in {} |-> Placeholder]

\* has_changed as it would be if only the existence of the two files were tested
has_changed_exists(d, unreadable, content, fname, pdf) ==
    ~Exists(d, fname) \/ fname \in unreadable \/ ~Exists(d, pdf)

\* has_changed(content, fname, pdf) on directory d; open(fname).read() raises
\* when the file is missing or is one of the files in unreadable
has_changed(d, unreadable, content, fname, pdf) ==
    IF ~Exists(d, fname) \/ fname \in unreadable THEN TRUE
    ELSE IF content # d[fname].text THEN TRUE
    ELSE IF ~Exists(d, pdf) THEN TRUE
    ELSE FALSE

\* the external compiler on a side-car text: pdflatex -halt-on-error leaves a
\* PDF unless the text is empty or holds a line it cannot compile
CompilerOk(text) == text # <<>> /\ \A k \in 1..Len(text) : text[k] \notin bad

-----------------------------------------------------------------------------
(* The documents build passes run on, and how the author edits them *)

Frame(x) == <<FrameBeginLine, x, FrameEndLine>>
\* the slides the author writes
Bodies == {Frame("a"), Frame("b")}
\* the lines the external compiler may be unable to compile
BadLines == {"b"}

RECURSIVE Flatten(_)
Flatten(us) == IF us = <<>> THEN <<>> ELSE Head(us) \o Flatten(Tail(us))

\* the source file of a document with slides us
Render(us) == <<DocBeginLine>> \o Flatten(us) \o <<DocEndLine>>

UnitSeqs == UNION {[1..k -> Bodies] : k \in 0..MaxUnits}
BuildDocs == {Render(us) : us \in UnitSeqs}

RemoveAt(us, i) == [k \in 1..(Len(us) - 1) |-> IF k < i THEN us[k] ELSE us[k + 1]]
InsertAt(us, i, b) ==
    [k \in 1..(Len(us) + 1) |-> IF k < i THEN us[k] ELSE IF k = i THEN b ELSE us[k - 1]]
SwapAt(us, i) ==
    [k \in 1..Len(us) |-> IF k = i THEN us[i + 1] ELSE IF k = i + 1 THEN us[i] ELSE us[k]]

\* one edit: a slide rewritten, removed, inserted, two neighbours swapped, or
\* the file only touched
Near(us) ==
    {us}
    \cup {[us EXCEPT ![i] = b] : i \in 1..Len(us), b \in Bodies}
    \cup {RemoveAt(us, i) : i \in 1..Len(us)}
    \cup (IF Len(us) < MaxUnits
          THEN {InsertAt(us, i, b) : i \in 1..(Len(us) + 1), b \in Bodies} ELSE {})
    \cup {SwapAt(us, i) : i \in 1..(Len(us) - 1)}

\* the documents one edit away from the document with slides us
EditsOf == [us \in UnitSeqs |-> {Render(v) : v \in Near(us)}]
Edits(d) == UNION {EditsOf[us] : us \in {u \in UnitSeqs : Render(u) = d}}

-----------------------------------------------------------------------------
(* create_slides up to the pool *)

NoLoc ==
    [tex |-> <<>>, header |-> <<>>, footer |-> <<>>, slides |-> <<>>, log |-> <<>>,
     texts |-> <<>>, slide_hashes |-> <<>>, slide_changed |-> <<>>,
     recompile |-> <<>>, up_to_date |-> TRUE,
     seen |-> EmptyDir, removed |-> {}, kept |-> {}, unreadable |-> {},
     merged |-> FALSE]

\* lines 292-300: the files the loop removes are those whose name up to the
\* first "." is no current hash; os.remove may fail on the files in kept
Orphans(d, hashes) == {f \in DOMAIN d : f.base \notin Range(hashes)}
\* the garbage collection as it would be if it removed the side-cars only
garbage_collect_tex(d, hashes, kept) ==
    RemoveFiles(d, {f \in Orphans(d, hashes) \ kept : f.ext = "tex"})
garbage_collect(d, hashes, kept) == RemoveFiles(d, Orphans(d, hashes) \ kept)

\* line 303 as it would be if every slide were checked against the files of
\* the first one
SlideChangedFirst(d, unreadable, texts, hashes) ==
    [i \in 1..Len(texts) |->
        args.force \/ has_changed(d, unreadable, texts[i],
                                  TexName(hashes[1]), PdfName(hashes[1]))]

\* line 303
SlideChanged(d, unreadable, texts, hashes) ==
    [i \in 1..Len(texts) |->
        args.force \/ has_changed(d, unreadable, texts[i],
                                  TexName(hashes[i]), PdfName(hashes[i]))]

\* lines 305-313: the argument tuples of the slides to compile, in document order
Recompile(p, hashes, changed) ==
    LET idx == SelectSeq([i \in 1..Len(hashes) |-> i], LAMBDA i : changed[i])
    IN  [k \in 1..Len(idx) |->
            [header |-> p.header, footer |-> p.footer, slide |-> p.slides[idx[k]],
             tex |-> TexName(hashes[idx[k]]), pdf |-> PdfName(hashes[idx[k]]),
             nr |-> k, idx |-> idx[k]]]

\* what a compiler that is not running has read
NoRead == [ok |-> FALSE, text |-> <<>>]

\* a task of the pool before it is run: at is the line it is at, runs the
\* number of compiler runs it has waited for, compiler how far the compiler
\* process it waits for has come, read what that compiler has read, unlinked
\* whether the PDF the task or its compiler holds open has been removed from
\* the directory; compiled and fallback record what it did
NewJob == [at |-> "queued", compiled |-> "-", fallback |-> FALSE,
           runs |-> 0, compiler |-> "-", read |-> NoRead, unlinked |-> FALSE]

\* lines 280-315 of create_slides; os.remove fails on the orphans in kept and
\* the side-cars in unreadable cannot be read.  (Each local is bound by a
\* quantifier over a one-element set, so that it is computed once.)
Begin(kept, unreadable) ==
    /\ pc = "idle"
    /\ passes' = passes + 1
    /\ faults' = faults + Cardinality(kept) + Cardinality(unreadable)
    /\ faults' <= MaxFaults
    /\ \E p \in {parse_slides(doc, args.ignore_errors)} :
       IF p.aborted
       THEN /\ pc' = "aborted"
            /\ kept = {} /\ unreadable = {}
            /\ loc' = [NoLoc EXCEPT !.tex = doc, !.log = p.log, !.seen = dir]
            /\ job' = <<>>
            /\ UNCHANGED dir
       ELSE \E texts \in {[i \in 1..Len(p.slides) |->
                              build_slide(p.header, p.slides[i], p.footer, i)]} :
            \E hashes \in {[i \in 1..Len(texts) |-> slide_hash(texts[i])]} :
            \E d1 \in {garbage_collect(dir, hashes, kept)} :
            \E chg \in {SlideChanged(d1, unreadable, texts, hashes)} :
            \E rec \in {Recompile(p, hashes, chg)} :
                /\ kept \subseteq Orphans(dir, hashes)
                /\ unreadable \subseteq {TexName(h) : h \in Range(hashes)} \cap DOMAIN d1
                /\ dir' = d1
                /\ loc' = [tex |-> doc, header |-> p.header, footer |-> p.footer,
                           slides |-> p.slides, log |-> p.log, texts |-> texts,
                           slide_hashes |-> hashes, slide_changed |-> chg,
                           recompile |-> rec, up_to_date |-> (rec = <<>>),
                           seen |-> d1, removed |-> DOMAIN dir \ DOMAIN d1,
                           kept |-> kept, unreadable |-> unreadable,
                           merged |-> FALSE]
                /\ job' = [k \in 1..Len(rec) |-> NewJob]
                /\ pc' = "pool"
    /\ UNCHANGED <<doc, args, parseVars, bad, out, prev>>

\* lines 283-286: the source cannot be opened, fatal() raises AbortException
BeginFatal ==
    /\ pc = "idle"
    /\ passes' = passes + 1
    /\ faults < MaxFaults
    /\ faults' = faults + 1
    /\ pc' = "aborted"
    /\ loc' = [NoLoc EXCEPT !.log = <<<<"Could not open", 0>>>>, !.seen = dir]
    /\ job' = <<>>
    /\ UNCHANGED <<doc, args, parseVars, bad, dir, out, prev>>

-----------------------------------------------------------------------------
(* multiprocessing.Pool(args.smp).map(compile_slide, recompile) *)

\* Pool.map cuts the tasks into chunks of ceil(n / (4 * processes)) tasks; a
\* worker runs the tasks of a chunk one after the other, and an exception in
\* one of them ends the chunk
ChunkSize(n, smp) == IF n = 0 THEN 1 ELSE (n + 4 * smp - 1) \div (4 * smp)
ChunkOf(j) == (j - 1) \div ChunkSize(Len(job), args.smp) + 1
FirstOf(c) == (c - 1) * ChunkSize(Len(job), args.smp) + 1

Terminal == {"done", "raised", "skipped"}
Jobs == DOMAIN job
\* the chunks whose tasks are all over
ChunkOver(c) == \A j \in Jobs : ChunkOf(j) = c => job[j].at \in Terminal
ChunksOver == {c \in {ChunkOf(j) : j \in Jobs} : ChunkOver(c)}

\* the workers take the chunks off the queue in order, each worker the next
\* chunk when it is through with its own: with args.smp workers the chunks
\* taken are the first args.smp ones and one more for every chunk that is
\* over.  The workers that hold a chunk run independently, so the first task
\* of any chunk taken may be the next to reach line 228; within a chunk a
\* task follows the one before it
CanStart(j) ==
    /\ pc = "pool"
    /\ j \in Jobs
    /\ job[j].at = "queued"
    /\ IF j = FirstOf(ChunkOf(j))
       THEN ChunkOf(j) <= Cardinality(ChunksOver) + args.smp
       ELSE job[j - 1].at = "done"

At(j, l) == pc = "pool" /\ j \in Jobs /\ job[j].at = l
Goto(j, l) == [job EXCEPT ![j].at = l]
\* compile_slide raises: the rest of the worker's chunk is never run
Raise(j) ==
    [k \in Jobs |->
        IF k = j THEN [job[k] EXCEPT !.at = "raised"]
        ELSE IF k > j /\ ChunkOf(k) = ChunkOf(j) THEN [job[k] EXCEPT !.at = "skipped"]
        ELSE job[k]]

\* line 224: the argument tuple of task j, and line 231: the text it writes
Arg(j) == loc.recompile[j]
\* the text as it would be if line 231 numbered the slide by nr, its place
\* among the slides to compile
Text_nr(j) == build_slide(Arg(j).header, Arg(j).slide, Arg(j).footer, Arg(j).nr)
Text(j) == build_slide(Arg(j).header, Arg(j).slide, Arg(j).footer, Arg(j).idx)

-----------------------------------------------------------------------------
(* compile_slide, one action per file-system call *)

JobFrame == UNCHANGED <<doc, args, parseVars, bad, out, pc, loc, prev, passes>>

\* line 228: open(tex, "w") creates or truncates the side-car
Open(j) ==
    /\ CanStart(j)
    /\ dir' = WriteFile(dir, Arg(j).tex, TexFile(<<>>))
    /\ job' = Goto(j, "write")
    /\ UNCHANGED faults
    /\ JobFrame

\* line 228 failing: nothing is written, line 233 reports it
OpenFails(j) ==
    /\ CanStart(j)
    /\ job' = IF args.ignore_errors THEN Goto(j, "isfile") ELSE Raise(j)
    /\ UNCHANGED dir
    /\ faults < MaxFaults
    /\ faults' = faults + 1
    /\ JobFrame

\* lines 229-233: an empty slide is an error raised inside the try, which the
\* bare except reports again; otherwise the text is written and the file closed
Write(j) ==
    /\ At(j, "write")
    /\ IF IsBlankText(Arg(j).slide) /\ ~args.ignore_errors
       THEN job' = Raise(j) /\ UNCHANGED dir
       ELSE /\ dir' = WriteFile(dir, Arg(j).tex, TexFile(Text(j)))
            /\ job' = Goto(j, "isfile")
    /\ UNCHANGED faults
    /\ JobFrame

\* line 240: for i in range(int(args.runs)) before the turn that follows n
\* compiler runs
Loop(n) == IF n < args.runs THEN "run" ELSE "check"

\* line 234
IsFile(j) ==
    /\ At(j, "isfile")
    /\ job' = Goto(j, IF Exists(dir, Arg(j).pdf) THEN "remove" ELSE Loop(0))
    /\ UNCHANGED dir
    /\ UNCHANGED faults
    /\ JobFrame

\* task k, or the compiler it waits for, holds its PDF open for writing
HoldsPdf(k) ==
    job[k].at = "fill" \/ (job[k].at = "running" /\ job[k].compiler = "opened")

\* line 235: os.remove raises when the file is gone; a task that holds the
\* file open between lines 258 and 259, and a compiler that has opened it and
\* not yet written it, keep a file that is in the directory no more
Remove(j) ==
    /\ At(j, "remove")
    /\ IF Exists(dir, Arg(j).pdf)
       THEN /\ dir' = RemoveFiles(dir, {Arg(j).pdf})
            /\ job' = [k \in Jobs |->
                          IF k = j THEN [job[k] EXCEPT !.at = Loop(0)]
                          ELSE IF HoldsPdf(k) /\ Arg(k).pdf = Arg(j).pdf
                               THEN [job[k] EXCEPT !.unlinked = TRUE]
                          ELSE job[k]]
       ELSE job' = Raise(j) /\ UNCHANGED dir
    /\ UNCHANGED faults
    /\ JobFrame

\* line 241: Popen starts the compiler, a process of its own; the task goes on
\* to wait for it in p.communicate() (line 242)
Run(j) ==
    /\ At(j, "run")
    /\ job' = [job EXCEPT ![j].at = "running", ![j].compiler = "started"]
    /\ UNCHANGED dir
    /\ UNCHANGED faults
    /\ JobFrame

\* task j waits at line 242 for a compiler that has come as far as c
Compiler(j, c) == At(j, "running") /\ job[j].compiler = c

\* the compiler reads the side-car as it is then
CompilerRead(j) ==
    /\ Compiler(j, "started")
    /\ job' = [job EXCEPT
                 ![j].compiler = "read",
                 ![j].read = IF Exists(dir, Arg(j).tex)
                             THEN [ok |-> TRUE, text |-> dir[Arg(j).tex].text]
                             ELSE NoRead]
    /\ UNCHANGED dir
    /\ UNCHANGED faults
    /\ JobFrame

\* the compiler writes its log
CompilerLog(j) ==
    /\ Compiler(j, "read")
    /\ job[j].read.ok
    /\ dir' = WriteFile(dir, LogName(Arg(j).tex.base), LogOf(job[j].read.text))
    /\ job' = [job EXCEPT ![j].compiler = "logged"]
    /\ UNCHANGED faults
    /\ JobFrame

\* the compiler, which can compile the text it read, opens the PDF for
\* writing: the file is created, or truncated
CompilerOpen(j) ==
    /\ Compiler(j, "logged")
    /\ CompilerOk(job[j].read.text)
    /\ dir' = WriteFile(dir, Arg(j).pdf, Truncated)
    /\ job' = [job EXCEPT ![j].compiler = "opened", ![j].unlinked = FALSE]
    /\ UNCHANGED faults
    /\ JobFrame

\* the compiler writes the PDF from offset 0 of the file it opened, over what
\* another task may have written to it since; when the file was removed
\* since, the write reaches no file of the directory
CompilerWrite(j) ==
    /\ Compiler(j, "opened")
    /\ IF job[j].unlinked
       THEN UNCHANGED dir
       ELSE dir' = WriteFile(dir, Arg(j).pdf,
                             PdfOnto(dir[Arg(j).pdf], job[j].read.text))
    /\ job' = [job EXCEPT ![j].compiler = "written", ![j].unlinked = FALSE]
    /\ UNCHANGED faults
    /\ JobFrame

\* the compiler process has ended: it found no side-car, or could not compile
\* the text, or has written its PDF
CompilerOver(j) ==
    \/ job[j].compiler = "read" /\ ~job[j].read.ok
    \/ job[j].compiler = "logged" /\ ~CompilerOk(job[j].read.text)
    \/ job[j].compiler = "written"

\* lines 242-247: p.communicate() returns once the compiler has ended; the
\* loop of line 240 then runs the compiler again or is over
Communicate(j) ==
    /\ At(j, "running")
    /\ CompilerOver(j)
    /\ job' = [job EXCEPT
                 ![j].at = Loop(job[j].runs + 1),
                 ![j].runs = @ + 1,
                 ![j].compiler = "-",
                 ![j].read = NoRead,
                 ![j].compiled = IF job[j].compiler = "written" \/ @ = "ok"
                                 THEN "ok" ELSE "failed"]
    /\ UNCHANGED dir
    /\ UNCHANGED faults
    /\ JobFrame

\* line 248
Check(j) ==
    /\ At(j, "check")
    /\ job' = IF Exists(dir, Arg(j).pdf) THEN Goto(j, "done")
              ELSE [job EXCEPT ![j].at = "empty", ![j].fallback = TRUE]
    /\ UNCHANGED dir
    /\ UNCHANGED faults
    /\ JobFrame

\* lines 249-257: the side-car is read for the log (line 252, which raises
\* when there is none), then emptied (lines 253-255); when the open of line 254
\* fails (fails), nothing is written and line 257 reports it: error() raises
\* without --ignore-errors, and with it the task goes on to line 258 beside a
\* side-car that is as it was
Empty(j, fails) ==
    /\ At(j, "empty")
    /\ IF ~Exists(dir, Arg(j).tex)
       THEN /\ ~fails
            /\ job' = Raise(j)
            /\ UNCHANGED dir
            /\ UNCHANGED faults
       ELSE IF fails
       THEN /\ faults < MaxFaults
            /\ faults' = faults + 1
            /\ job' = IF args.ignore_errors THEN Goto(j, "placeholder") ELSE Raise(j)
            /\ UNCHANGED dir
       ELSE /\ dir' = WriteFile(dir, Arg(j).tex, TexFile(<<>>))
            /\ job' = Goto(j, "placeholder")
            /\ UNCHANGED faults
    /\ JobFrame

\* line 258: open(pdf, "wb") creates or truncates the PDF
OpenPlaceholder(j) ==
    /\ At(j, "placeholder")
    /\ dir' = WriteFile(dir, Arg(j).pdf, Truncated)
    /\ job' = [job EXCEPT ![j].at = "fill", ![j].unlinked = FALSE]
    /\ UNCHANGED faults
    /\ JobFrame

\* line 259: the built-in page is written from offset 0 of the file opened at
\* line 258, over what another task's compiler may have written to it since;
\* when the file was removed since, the write reaches no file of the directory
WritePlaceholder(j) ==
    /\ At(j, "fill")
    /\ IF job[j].unlinked
       THEN UNCHANGED dir
       ELSE dir' = WriteFile(dir, Arg(j).pdf, PlaceholderOnto(dir[Arg(j).pdf]))
    /\ job' = [job EXCEPT ![j].at = "done", ![j].unlinked = FALSE]
    /\ UNCHANGED faults
    /\ JobFrame

-----------------------------------------------------------------------------
(* create_slides after the pool *)

\* merge_slides as it would be if it gave up at the first PDF it cannot open
RECURSIVE merge_slides_until(_, _)
merge_slides_until(d, hashes) ==
    IF hashes = <<>> \/ ~Exists(d, PdfName(Head(hashes))) THEN <<>>
    ELSE <<d[PdfName(Head(hashes))]>> \o merge_slides_until(d, Tail(hashes))

\* merge_slides(hashes, slide_name) on directory d: the pages written to args.out
merge_slides(d, hashes) ==
    LET present == SelectSeq(hashes, LAMBDA h : Exists(d, PdfName(h)))
    IN  [k \in 1..Len(present) |-> d[PdfName(present[k])]]

\* the PDFs of the directory that are no PDF: a file without a byte, which
\* merger.append (line 270) cannot read, and the files that begin with one of
\* the built-in page and a compiled PDF and end with the rest of the other
Empties(d) == {f \in DOMAIN d : d[f].kind = "truncated"}
Damaged(d) == {f \in DOMAIN d : d[f].kind \in {"placeholder+pdf", "pdf+placeholder"}}

\* lines 262-277 on directory d, where args.out holds o: what the library
\* makes of a damaged PDF is not fixed by the code, so merger.append raises on
\* it and the slide is left out (line 272), or it takes it and merger.write
\* writes it, or merger.write raises on it, which line 277 only logs
MergeOutcomes(d, hashes) ==
    LET damaged == {f \in Damaged(d) : f.base \in Range(hashes)} IN
    {[out |-> [exists |-> TRUE,
               pages |-> merge_slides(RemoveFiles(d, Empties(d) \cup b), hashes)],
      written |-> TRUE] : b \in SUBSET damaged}
    \cup (IF damaged = {} THEN {}
          ELSE {[out |-> [exists |-> TRUE, pages |-> <<>>], written |-> FALSE]})

\* lines 317-322: map returns once every chunk is over, and re-raises what a
\* task raised
Finish ==
    /\ pc = "pool"
    /\ \A j \in Jobs : job[j].at \in Terminal
    /\ IF \E j \in Jobs : job[j].at = "raised"
       THEN pc' = "aborted" /\ UNCHANGED <<out, loc>>
       ELSE /\ pc' = "done"
            /\ IF loc.up_to_date
               THEN UNCHANGED <<out, loc>>
               ELSE \E m \in MergeOutcomes(dir, loc.slide_hashes) :
                       /\ out' = m.out
                       /\ loc' = IF m.written THEN [loc EXCEPT !.merged = TRUE]
                                 ELSE [loc EXCEPT !.log =
                                          Append(@, <<"Could not write out", 0>>)]
    /\ UNCHANGED <<doc, args, parseVars, bad, dir, job, prev, passes, faults>>

\* lines 273-277 failing: open(args.out, "wb") raises and leaves the file as it
\* was, or merger.write raises and leaves it cut short; error() is called with
\* the exception, and with an exception it only logs
FinishWriteFails ==
    /\ pc = "pool"
    /\ \A j \in Jobs : job[j].at \in Terminal
    /\ \A j \in Jobs : job[j].at # "raised"
    /\ ~loc.up_to_date
    /\ faults < MaxFaults
    /\ faults' = faults + 1
    /\ pc' = "done"
    /\ out' \in {out, [exists |-> TRUE, pages |-> <<>>]}
    /\ loc' = [loc EXCEPT !.log = Append(@, <<"Could not write out", 0>>)]
    /\ UNCHANGED <<doc, args, parseVars, bad, dir, job, prev, passes>>

-----------------------------------------------------------------------------
(* The environment between two passes *)

\* history: the pass that has just ended, as the next pass looks back on it
NoPrev == [valid |-> FALSE, pc |-> "idle", tex |-> <<>>, bad |-> {},
           slides |-> <<>>, header |-> <<>>, footer |-> <<>>,
           slide_hashes |-> <<>>, fallback |-> {},
           out |-> [exists |-> FALSE, pages |-> <<>>]]

\* the author edits the source (main line 350 is then run again, or the
\* watcher of lines 325-335 calls create_slides); the compiler's environment
\* may change as well
Env(d, b) ==
    /\ pc \in {"done", "aborted"}
    /\ passes < MaxPasses
    /\ doc' = d
    /\ bad' = b
    /\ prev' = [valid |-> TRUE, pc |-> pc, tex |-> loc.tex, bad |-> bad,
                slides |-> loc.slides, header |-> loc.header, footer |-> loc.footer,
                slide_hashes |-> loc.slide_hashes,
                fallback |-> {loc.slide_hashes[loc.recompile[j].idx] :
                                 j \in {k \in Jobs : job[k].fallback}},
                out |-> out]
    /\ pc' = "idle"
    /\ loc' = NoLoc
    /\ job' = <<>>
    /\ UNCHANGED <<args, parseVars, dir, out, passes, faults>>

-----------------------------------------------------------------------------
(* Specifications *)

\* the author or the watcher runs the pass again on the unchanged source
Touch == Env(doc, bad)

\* the author makes one edit
EditDoc ==
    /\ pc \in {"done", "aborted"}
    /\ passes < MaxPasses
    /\ \E d \in Edits(doc) : Env(d, bad)

\* the author makes one edit, and the compiler's environment may change
Edit ==
    /\ pc \in {"done", "aborted"}
    /\ passes < MaxPasses
    /\ \E d \in Edits(doc), b \in SUBSET BadLines : Env(d, b)

\* the author deletes one line of the source, which may break its structure
Damage ==
    /\ pc \in {"done", "aborted"}
    /\ passes < MaxPasses
    /\ \E i \in 1..Len(doc) : Env(RemoveAt(doc, i), bad)

\* at most one file fails in one loop over files
Few(S) == {{}} \cup {{x} : x \in S}

\* the command lines of the build passes: --force, --frames, --smp,
\* --ignore-errors, --runs (int(args.runs), 1 when the option is not given)
\* and --compiler
ArgSet(forces, smps, ignores, runs, compilers) ==
    [force : forces, frames : BOOLEAN, ignore_errors : ignores, smp : smps,
     runs : runs, compiler : compilers]

InitBuild(docs, argset) ==
    /\ doc \in docs
    /\ args \in argset
    /\ bad \in SUBSET BadLines
    /\ ps = ParseInit
    /\ pline = 1
    /\ dir = EmptyDir
    /\ out = [exists |-> FALSE, pages |-> <<>>]
    /\ pc = "idle"
    /\ loc = NoLoc
    /\ job = <<>>
    /\ prev = NoPrev
    /\ passes = 0
    /\ faults = 0

\* Spec: passes on one worker over a document the author edits between them
Init == InitBuild(BuildDocs, ArgSet(BOOLEAN, {1}, {FALSE}, {0, 1, 2}, {"longer"}))

Next ==
    \/ Begin({}, {})
    \/ \E j \in Jobs : Open(j)
    \/ \E j \in Jobs : Write(j)
    \/ \E j \in Jobs : IsFile(j)
    \/ \E j \in Jobs : Remove(j)
    \/ \E j \in Jobs : Run(j)
    \/ \E j \in Jobs : CompilerRead(j)
    \/ \E j \in Jobs : CompilerLog(j)
    \/ \E j \in Jobs : CompilerOpen(j)
    \/ \E j \in Jobs : CompilerWrite(j)
    \/ \E j \in Jobs : Communicate(j)
    \/ \E j \in Jobs : Check(j)
    \/ \E j \in Jobs : Empty(j, FALSE)
    \/ \E j \in Jobs : OpenPlaceholder(j)
    \/ \E j \in Jobs : WritePlaceholder(j)
    \/ Finish
    \/ Edit

Spec == Init /\ [][Next]_vars

\* the wide document: the two slides in turn, so that without --frames the
\* first slide and the third are the same text
WideDoc == Render([k \in 1..WideUnits |-> IF k % 2 = 1 THEN Frame("a") ELSE Frame("b")])
\* the documents of at most PoolUnits slides
SmallDocs == {Render(us) : us \in UNION {[1..k -> Bodies] : k \in 0..PoolUnits}}
PoolDocs == SmallDocs \cup {WideDoc}

\* SpecPool: passes on one or two workers, every interleaving of the tasks'
\* steps, run again and again on the unchanged source
InitPool == InitBuild(PoolDocs, ArgSet({FALSE}, {1, 2}, {FALSE}, {0, 1}, Compilers))

NextPool ==
    \/ Begin({}, {})
    \/ \E j \in Jobs : Open(j)
    \/ \E j \in Jobs : Write(j)
    \/ \E j \in Jobs : IsFile(j)
    \/ \E j \in Jobs : Remove(j)
    \/ \E j \in Jobs : Run(j)
    \/ \E j \in Jobs : CompilerRead(j)
    \/ \E j \in Jobs : CompilerLog(j)
    \/ \E j \in Jobs : CompilerOpen(j)
    \/ \E j \in Jobs : CompilerWrite(j)
    \/ \E j \in Jobs : Communicate(j)
    \/ \E j \in Jobs : Check(j)
    \/ \E j \in Jobs : Empty(j, FALSE)
    \/ \E j \in Jobs : OpenPlaceholder(j)
    \/ \E j \in Jobs : WritePlaceholder(j)
    \/ Finish
    \/ Touch

SpecPool == InitPool /\ [][NextPool]_vars

\* the cache directory is the user's: an artifact in it is lost between two passes
Lose ==
    /\ pc \in {"done", "aborted"}
    /\ faults < MaxFaults
    /\ faults' = faults + 1
    /\ \E f \in {g \in DOMAIN dir : g.ext = "pdf"} : dir' = RemoveFiles(dir, {f})
    /\ UNCHANGED <<doc, args, parseVars, bad, out, pc, loc, job, prev, passes>>

\* an artifact is lost between the end of the pool and the merge
LoseBeforeMerge ==
    /\ pc = "pool"
    /\ ~loc.up_to_date
    /\ \A j \in Jobs : job[j].at \in Terminal
    /\ faults < MaxFaults
    /\ faults' = faults + 1
    /\ \E f \in {g \in DOMAIN dir : g.ext = "pdf"} : dir' = RemoveFiles(dir, {f})
    /\ UNCHANGED <<doc, args, parseVars, bad, out, pc, loc, job, prev, passes>>

\* SpecRead: Spec, where the read of a side-car may fail in the cache check and
\* an artifact may be lost
InitRead == InitBuild(BuildDocs, ArgSet(BOOLEAN, {1}, {FALSE}, {1}, {"longer"})) /\ ~args.frames

NextRead ==
    \/ \E unreadable \in Few(DOMAIN dir) : Begin({}, unreadable)
    \/ \E j \in Jobs : Open(j)
    \/ \E j \in Jobs : Write(j)
    \/ \E j \in Jobs : IsFile(j)
    \/ \E j \in Jobs : Remove(j)
    \/ \E j \in Jobs : Run(j)
    \/ \E j \in Jobs : CompilerRead(j)
    \/ \E j \in Jobs : CompilerLog(j)
    \/ \E j \in Jobs : CompilerOpen(j)
    \/ \E j \in Jobs : CompilerWrite(j)
    \/ \E j \in Jobs : Communicate(j)
    \/ \E j \in Jobs : Check(j)
    \/ \E j \in Jobs : Empty(j, FALSE)
    \/ \E j \in Jobs : OpenPlaceholder(j)
    \/ \E j \in Jobs : WritePlaceholder(j)
    \/ Finish
    \/ Lose
    \/ LoseBeforeMerge
    \/ EditDoc

SpecRead == InitRead /\ [][NextRead]_vars

\* SpecIO: passes on one worker in which file-system calls may fail: os.remove
\* in the garbage collection (lines 294-300), the read of a side-car (line 68),
\* the open of a side-car for writing (lines 228 and 254); the author edits
\* the document between the passes
LongDoc == Render([k \in 1..LongUnits |-> Frame("a")])

InitIO ==
    /\ InitBuild(SmallDocs \cup {LongDoc}, ArgSet({FALSE}, {1}, BOOLEAN, {1}, {"longer"}))
    /\ ~args.frames

NextIO ==
    \/ \E kept \in Few(DOMAIN dir), unreadable \in Few(DOMAIN dir) :
          Begin(kept, unreadable)
    \/ \E j \in Jobs : Open(j)
    \/ \E j \in Jobs : OpenFails(j)
    \/ \E j \in Jobs : Write(j)
    \/ \E j \in Jobs : IsFile(j)
    \/ \E j \in Jobs : Remove(j)
    \/ \E j \in Jobs : Run(j)
    \/ \E j \in Jobs : CompilerRead(j)
    \/ \E j \in Jobs : CompilerLog(j)
    \/ \E j \in Jobs : CompilerOpen(j)
    \/ \E j \in Jobs : CompilerWrite(j)
    \/ \E j \in Jobs : Communicate(j)
    \/ \E j \in Jobs : Check(j)
    \/ \E j \in Jobs, fails \in BOOLEAN : Empty(j, fails)
    \/ \E j \in Jobs : OpenPlaceholder(j)
    \/ \E j \in Jobs : WritePlaceholder(j)
    \/ Finish
    \/ EditDoc

SpecIO == InitIO /\ [][NextIO]_vars

\* SpecAbort: passes on one worker over a source that may be unreadable and
\* whose structure the author may break, writing to an args.out that may be
\* unwritable, with and without --ignore-errors
InitAbort ==
    /\ InitBuild(BuildDocs, ArgSet({FALSE}, {1}, BOOLEAN, {1}, {"longer"}))
    /\ ~args.frames

NextAbort ==
    \/ Begin({}, {})
    \/ BeginFatal
    \/ \E j \in Jobs : Open(j)
    \/ \E j \in Jobs : Write(j)
    \/ \E j \in Jobs : IsFile(j)
    \/ \E j \in Jobs : Remove(j)
    \/ \E j \in Jobs : Run(j)
    \/ \E j \in Jobs : CompilerRead(j)
    \/ \E j \in Jobs : CompilerLog(j)
    \/ \E j \in Jobs : CompilerOpen(j)
    \/ \E j \in Jobs : CompilerWrite(j)
    \/ \E j \in Jobs : Communicate(j)
    \/ \E j \in Jobs : Check(j)
    \/ \E j \in Jobs : Empty(j, FALSE)
    \/ \E j \in Jobs : OpenPlaceholder(j)
    \/ \E j \in Jobs : WritePlaceholder(j)
    \/ Finish
    \/ FinishWriteFails
    \/ Touch
    \/ Damage

SpecAbort == InitAbort /\ [][NextAbort]_vars

-----------------------------------------------------------------------------
(* parse_slides run line by line *)

\* the lines the splitter is run on, and the documents made of them
ParseLines == {DocBeginLine, FrameBeginLine, FrameEndLine, SectionLine, TitleLine,
               MacroLine, OpenLine, CloseLine, BlankLine, "a"}
ParseDocs == UNION {[1..n -> ParseLines] : n \in 1..MaxLines}

Returned == pline = Len(doc) + 2

\* one turn of the loop of lines 119-205
ParseStep ==
    /\ ~ps.aborted
    /\ pline <= Len(doc)
    /\ ps' = ParseLine(ps, doc[pline], pline, args.ignore_errors)
    /\ pline' = pline + 1
    /\ UNCHANGED <<doc, args, buildVars>>

\* lines 207-212
ParseReturn ==
    /\ ~ps.aborted
    /\ pline = Len(doc) + 1
    /\ ps' = ParseEnd(ps, args.ignore_errors)
    /\ pline' = IF ps'.aborted THEN pline ELSE pline + 1
    /\ UNCHANGED <<doc, args, buildVars>>

InitParse ==
    /\ doc \in ParseDocs
    /\ args \in ArgSet({FALSE}, {1}, BOOLEAN, {1}, {"longer"})
    /\ args.frames = FALSE
    /\ bad = {}
    /\ ps = ParseInit
    /\ pline = 1
    /\ dir = EmptyDir
    /\ out = [exists |-> FALSE, pages |-> <<>>]
    /\ pc = "idle"
    /\ loc = NoLoc
    /\ job = <<>>
    /\ prev = NoPrev
    /\ passes = 0
    /\ faults = 0

NextParse == ParseStep \/ ParseReturn

SpecParse == InitParse /\ [][NextParse]_vars

-----------------------------------------------------------------------------
(* Properties *)

\* the slides of the current pass by position, and the positions in recompile
Units == 1..Len(loc.slides)
Scheduled == {loc.recompile[j].idx : j \in DOMAIN loc.recompile}
TexAt(i) == TexName(loc.slide_hashes[i])
PdfAt(i) == PdfName(loc.slide_hashes[i])
\* the pass before the current one ran to its end
Consecutive == prev.valid /\ prev.pc = "done" /\ pc \in {"pool", "done", "aborted"}

\* C1: in every pass a slide is in recompile if and only if --force is set, or
\* its side-car is missing or unreadable, or the side-car's text differs from
\* the slide's assembled text, or its PDF is missing (the directory is the one
\* the check of line 303 saw).
C1_StaleIff ==
    \A i \in Units :
        i \in Scheduled <=>
            \/ args.force
            \/ ~Exists(loc.seen, TexAt(i))
            \/ TexAt(i) \in loc.unreadable
            \/ loc.seen[TexAt(i)].text # loc.texts[i]
            \/ ~Exists(loc.seen, PdfAt(i))

\* a pass without --force that schedules a slide only because its PDF is
\* missing, and leaves another slide alone
C1_Witness ==
    /\ pc = "pool"
    /\ ~args.force
    /\ \E i \in Units : i \notin Scheduled
    /\ \E i \in Scheduled :
          /\ Exists(loc.seen, TexAt(i))
          /\ TexAt(i) \notin loc.unreadable
          /\ loc.seen[TexAt(i)].text = loc.texts[i]
          /\ ~Exists(loc.seen, PdfAt(i))

\* the current pass runs on the source and with the compiler of the pass before
\* it, without --force
SameSource ==
    /\ Consecutive
    /\ prev.tex = loc.tex
    /\ prev.bad = bad
    /\ ~args.force

\* C2 as stated: a second pass on the unchanged source schedules no job and
\* leaves args.out as the first pass left it.
C2_Idempotent_Stated ==
    SameSource => loc.recompile = <<>> /\ out = prev.out

\* C2: a second pass on the unchanged source schedules no job and leaves
\* args.out as the first pass left it, when no job of the first pass fell
\* back to the placeholder.
C2_Idempotent ==
    (SameSource /\ prev.fallback = {}) => loc.recompile = <<>> /\ out = prev.out

\* a second pass over at least two slides, on two workers, that has ended
\* without a job
C2_Witness ==
    /\ SameSource
    /\ prev.fallback = {}
    /\ pc = "done"
    /\ args.smp = 2
    /\ Len(loc.slides) >= 2
    /\ loc.recompile = <<>>
    /\ out.exists

\* between the pass before and the current one exactly slide k was rewritten
OneBodyChanged(k) ==
    /\ Consecutive
    /\ ~args.force
    /\ prev.header = loc.header
    /\ prev.footer = loc.footer
    /\ Len(prev.slides) = Len(loc.slides)
    /\ k \in Units
    /\ prev.slides[k] # loc.slides[k]
    /\ \A i \in Units \ {k} : prev.slides[i] = loc.slides[i]

\* the hashes of the two passes differ at position k and nowhere else
OnlyHashChanged(k) ==
    /\ loc.slide_hashes[k] # prev.slide_hashes[k]
    /\ \A i \in Units \ {k} : loc.slide_hashes[i] = prev.slide_hashes[i]

\* C3 as stated: when exactly one slide was rewritten between two passes, only
\* its hash differs and the second pass schedules exactly that slide.
C3_ContentAddressing_Stated ==
    \A k \in Units :
        OneBodyChanged(k) => OnlyHashChanged(k) /\ Scheduled = {k}

\* the cache directory the pass found lacks a readable side-car holding the
\* assembled text of slide i, or lacks the PDF under the slide's hash
Stale(i) ==
    \/ ~Exists(loc.seen, TexAt(i))
    \/ TexAt(i) \in loc.unreadable
    \/ loc.seen[TexAt(i)].text # loc.texts[i]
    \/ ~Exists(loc.seen, PdfAt(i))

\* C3: when exactly one slide was rewritten between two completed passes
\* without --force, only its hash differs, and the second pass schedules a
\* slide, rewritten or not, exactly if the cache directory it finds lacks a
\* readable side-car holding the slide's assembled text or lacks the PDF under
\* the slide's hash.
C3_ContentAddressing ==
    \A k \in Units :
        OneBodyChanged(k) =>
            /\ OnlyHashChanged(k)
            /\ \A i \in Units : i \in Scheduled <=> Stale(i)

\* a pass over at least two slides that has compiled the one rewritten slide
\* and nothing else
C3_Witness ==
    \E k \in Units :
        /\ OneBodyChanged(k)
        /\ pc = "done"
        /\ Len(loc.slides) >= 2
        /\ Scheduled = {k}
        /\ loc.merged

\* C4: whatever the number of workers and the order in which the jobs end, the
\* pages the pass writes to args.out are the slides' PDFs in the order of the
\* slides in the document, one page per slide.
C4_Ordering ==
    (pc = "done" /\ loc.merged) =>
        /\ Len(out.pages) = Len(loc.slides)
        /\ \A i \in Units :
              /\ Exists(dir, PdfAt(i))
              /\ out.pages[i] = dir[PdfAt(i)]
              /\ out.pages[i] \in {PdfOf(loc.texts[i]), Placeholder}

\* C5: after every completed pass args.out holds the PDFs of the current
\* document's slides in order, also when the pass found nothing to compile and
\* did not merge.
C5_FinalArtifact ==
    pc = "done" =>
        /\ Len(out.pages) = Len(loc.slides)
        /\ \A i \in Units : Exists(dir, PdfAt(i)) /\ out.pages[i] = dir[PdfAt(i)]

\* the hashes of the current document
Current == Range(loc.slide_hashes)
\* the job compiled its text, and its slide has side-car and PDF
CompiledHasBoth(j) ==
    job[j].compiled = "ok" => Exists(dir, Arg(j).tex) /\ Exists(dir, Arg(j).pdf)

\* C6 as stated: after a completed pass every file of the cache directory is
\* named by a current hash, the garbage collection removes no file named by a
\* current hash, and a slide compiled in the pass has side-car and PDF.
C6_GarbageCollection_Stated ==
    /\ pc = "done" => \A f \in DOMAIN dir : f.base \in Current
    /\ \A f \in loc.removed : f.base \notin Current
    /\ pc = "done" => \A j \in Jobs : CompiledHasBoth(j)

\* C6: after a completed pass every file of the cache directory is named by a
\* current hash or is a file os.remove failed on, the garbage collection
\* removes no file named by a current hash, and a slide compiled in the pass
\* has side-car and PDF.
C6_GarbageCollection ==
    /\ pc = "done" => \A f \in DOMAIN dir : f.base \in Current \/ f \in loc.kept
    /\ \A f \in loc.removed : f.base \notin Current
    /\ pc = "done" => \A j \in Jobs : CompiledHasBoth(j)

\* a completed pass that removed orphans, failed to remove one, and compiled a slide
C6_Witness ==
    /\ pc = "done"
    /\ loc.removed # {}
    /\ loc.kept # {}
    /\ \E j \in Jobs : job[j].compiled = "ok"

\* the compiler is run on the slide's text and can compile it
Compiles(i) == args.runs > 0 /\ CompilerOk(loc.texts[i])

\* C7: whichever slides the compiler fails on, the pass does not abort, and
\* args.out holds at each slide's position the slide's compiled PDF if the
\* compiler, run on the slide's text, can compile it and the placeholder if
\* it cannot (or is never run, with --runs 0).
C7_FailureIsolation ==
    /\ pc # "aborted"
    /\ (pc = "done" /\ loc.merged) =>
          /\ Len(out.pages) = Len(loc.slides)
          /\ \A i \in Units :
                out.pages[i] = IF Compiles(i) THEN PdfOf(loc.texts[i])
                               ELSE Placeholder

\* C8: two jobs of a pass never have the same side-car path or the same PDF path.
C8_DistinctPaths ==
    \A j, k \in Jobs :
        j # k => Arg(j).tex # Arg(k).tex /\ Arg(j).pdf # Arg(k).pdf

\* C9: a job that fails stops no other job: no job is left out, and when the
\* pool is over every job that did not itself raise has ended and its PDF is
\* in place.
C9_NoStarvation ==
    /\ \A j \in Jobs : job[j].at # "skipped"
    /\ pc \in {"done", "aborted"} =>
          \A j \in Jobs :
              job[j].at = "raised" \/ (job[j].at = "done" /\ Exists(dir, Arg(j).pdf))

\* the turn of the loop that is about to run reads a \begin{frame} inside a
\* frame, or an \end{frame} outside of one
NestedBegin == pline <= Len(doc) /\ IsFrameBegin(doc[pline]) /\ ps.in_slide
StrayEnd == pline <= Len(doc) /\ IsFrameEnd(doc[pline]) /\ ~ps.in_slide
Reported(msg) == ps'.log = Append(ps.log, <<msg, pline>>)

\* C10: a \begin{frame} read inside a frame and an \end{frame} read outside of
\* one are each reported as an error with their line; without --ignore-errors
\* the splitter stops at that line with the slides it had, and a splitter that
\* has stopped so never returns.
C10_NestingErrors ==
    [][/\ (pline' = pline + 1 /\ NestedBegin) =>
             /\ Reported("frame inside frame")
             /\ ~args.ignore_errors => ps'.aborted /\ ps'.slides = ps.slides
       /\ (pline' = pline + 1 /\ StrayEnd) =>
             /\ Reported("frame end without frame begin")
             /\ ~args.ignore_errors => ps'.aborted /\ ps'.slides = ps.slides
       /\ ps'.aborted => pline' <= Len(doc) + 1]_vars

\* the splitter has stopped at an \end{frame} that follows a complete frame
C10_Witness ==
    /\ ~args.ignore_errors
    /\ ps.aborted
    /\ Len(ps.slides) >= 1
    /\ Len(ps.log) = 1
    /\ ps.log[1] = <<"frame end without frame begin", pline - 1>>

\* what the pass that has just begun reported: the source could not be opened,
\* or the splitter called error()
FatalReported(log) == \E k \in 1..Len(log) : log[k][1] = "Could not open"
ErrorReported(log) ==
    \E k \in 1..Len(log) :
        log[k][1] \notin {"Could not open", "No slides found", "Could not write out"}

\* C11: a pass whose source cannot be read, or whose splitter reports an error
\* without --ignore-errors, ends at once: no file of the cache directory is
\* removed or written, no job is handed to the pool, args.out is untouched,
\* and nothing changes until the next pass begins.
C11_AbortBeforeEffects ==
    [][/\ (/\ pc = "idle" /\ pc' # "idle"
           /\ FatalReported(loc'.log) \/ (ErrorReported(loc'.log) /\ ~args.ignore_errors))
          => pc' = "aborted" /\ dir' = dir /\ out' = out /\ job' = <<>>
       /\ (pc = "aborted" /\ job = <<>>) => dir' = dir /\ out' = out]_vars

\* a pass has ended on a structural error over a filled cache directory and
\* an existing args.out
C11_Witness ==
    /\ pc = "aborted"
    /\ job = <<>>
    /\ ErrorReported(loc.log)
    /\ ~args.ignore_errors
    /\ DOMAIN dir # {}
    /\ out.exists

\* the pass could not write args.out
MergeFailed == \E k \in 1..Len(loc.log) : loc.log[k][1] = "Could not write out"

\* C12: a pass that cannot write args.out is aborted without --ignore-errors,
\* and goes on as if completed only with --ignore-errors.
C12_MergeFailureAborts ==
    MergeFailed => pc = (IF args.ignore_errors THEN "done" ELSE "aborted")

\* C13: when the input ends inside an open unit (a frame, or a wrapper opened
\* by "{"), the splitter reports the missing end; it never returns having
\* dropped the open unit's lines without a word.
C13_MissingEnd ==
    (Returned /\ (ps.in_slide \/ ps.slide_wrapper)) =>
        \E k \in 1..Len(ps.log) : ps.log[k][1] = "Missing frame end"

\* a frame with no line, or only blank lines, between its two markers
EmptyFrame(u) ==
    /\ Len(u) >= 2
    /\ IsFrameBegin(u[1])
    /\ IsFrameEnd(u[Len(u)])
    /\ \A k \in 2..(Len(u) - 1) : u[k] = BlankLine

\* C14: a frame that is empty or blank when its \end{frame} closes it is
\* reported as a frame without content, and is among the slides only with
\* --ignore-errors.
C14_EmptyFrame ==
    \A k \in 1..Len(ps.slides) :
        EmptyFrame(ps.slides[k]) =>
            /\ args.ignore_errors
            /\ \E e \in 1..Len(ps.log) : ps.log[e][1] = "frame without content"

\* how job j has ended: with the PDF its own compiler run wrote and the text in
\* the side-car, or with the placeholder and an empty side-car
EndsCompiled(j) ==
    /\ job'[j].compiled = "ok"
    /\ ~job'[j].fallback
    /\ Exists(dir', Arg(j).tex) /\ dir'[Arg(j).tex] = TexFile(Text(j))
    /\ Exists(dir', Arg(j).pdf) /\ dir'[Arg(j).pdf] = PdfOf(Text(j))
EndsPlaceholder(j) ==
    /\ job'[j].fallback
    /\ Exists(dir', Arg(j).tex) /\ dir'[Arg(j).tex] = TexFile(<<>>)
    /\ Exists(dir', Arg(j).pdf) /\ dir'[Arg(j).pdf] = Placeholder

\* C15: at the step that ends a job, either the PDF at the slide's path was
\* written by the job's own compiler run and the side-car holds the slide's
\* text, or the side-car is empty and the PDF is the placeholder.
C15_JobOutcome ==
    [][\A j \in Jobs :
          (j \in DOMAIN job' /\ job[j].at # "done" /\ job'[j].at = "done") =>
              EndsCompiled(j) \/ EndsPlaceholder(j)]_vars

\* C16: a slide whose job fell back to the placeholder is scheduled again by
\* the next pass over the unchanged source, and no pass leaves a slide alone
\* whose cached PDF is the placeholder.
C16_RetryAfterFailure ==
    /\ SameSource =>
          \A i \in Units : loc.slide_hashes[i] \in prev.fallback => i \in Scheduled
    /\ \A i \in Units \ Scheduled :
          Exists(loc.seen, PdfAt(i)) => loc.seen[PdfAt(i)] # Placeholder

\* the locals of parse_slides after the first n turns of the loop, and the
\* line that completed the last slide
RECURSIVE ParseLoop(_, _, _, _)
ParseLoop(s, tex, n, ignore) ==
    IF n = 0 THEN s
    ELSE LET t == ParseLoop(s, tex, n - 1, ignore)
         IN  IF t.aborted THEN t ELSE ParseLine(t, tex[n], n, ignore)
SlidesAfter(n) == Len(ParseLoop(ParseInit, doc, n, args.ignore_errors).slides)
LastUnitEnd ==
    CHOOSE n \in 1..Len(doc) :
        /\ SlidesAfter(n) > SlidesAfter(n - 1)
        /\ \A m \in (n + 1)..Len(doc) : SlidesAfter(m) = SlidesAfter(m - 1)

\* C17: on an input without errors and with every unit closed, the footer the
\* splitter returns is made of the lines after the last slide (a
\* \begin{document} among them goes to the header), and of nothing else.
C17_FooterRule ==
    (Returned /\ ps.log = <<>> /\ ~ps.slide_wrapper /\ ps.slides # <<>>) =>
        ps.footer = SelectSeq(SubSeq(doc, LastUnitEnd + 1, Len(doc)),
                              LAMBDA l : ~IsDocBegin(l))

\* C18: when the splitter reaches the end of the input with no slide, it has
\* warned that no slides were found.
C18_NoUnitsWarning ==
    (Returned /\ ps.slides = <<>>) =>
        \E k \in 1..Len(ps.log) : ps.log[k][1] = "No slides found"

\* the positions of the slides whose PDF is in the cache directory
Mergeable == SelectSeq([i \in Units |-> i], LAMBDA i : Exists(dir, PdfAt(i)))

\* C19: when the pool is over and no job has raised, a pass with something to
\* compile ends as completed, and the step that merges writes to args.out the
\* PDFs of the slides whose PDF is there, in document order, leaving out those
\* whose PDF is missing.
C19_BestEffortMerge ==
    [][(/\ pc = "pool" /\ pc' # "pool"
        /\ ~loc.up_to_date
        /\ \A j \in Jobs : job[j].at # "raised")
       => /\ pc' = "done"
          /\ loc'.merged
          /\ out'.exists
          /\ Len(out'.pages) = Len(Mergeable)
          /\ \A k \in 1..Len(Mergeable) : out'.pages[k] = dir[PdfAt(Mergeable[k])]]_vars

\* a pass has merged although the first slide's PDF was missing, and a later
\* slide's page is in args.out
C19_Witness ==
    /\ pc = "done"
    /\ loc.merged
    /\ Len(loc.slides) >= 2
    /\ ~Exists(dir, PdfAt(1))
    /\ Len(out.pages) = Len(loc.slides) - 1
    /\ out.pages[1] = dir[PdfAt(2)]

\* C20: every side-car of the cache directory is empty or holds the text whose
\* hash names it.
C20_CacheIntegrity ==
    \A f \in DOMAIN dir :
        f.ext = "tex" => dir[f].text = <<>> \/ slide_hash(dir[f].text) = f.base

\* with --frames a job whose slide is not the first of the document but the
\* first to compile has written its side-car
C20_Witness ==
    /\ args.frames
    /\ \E j \in Jobs :
          /\ job[j].at = "done"
          /\ Arg(j).nr # Arg(j).idx
          /\ Exists(dir, Arg(j).tex)
          /\ dir[Arg(j).tex].text # <<>>

\* a slide that begins with \begin{frame} and ends with \end{frame}
FrameUnit(u) == Len(u) >= 2 /\ IsFrameBegin(u[1]) /\ IsFrameEnd(u[Len(u)])
\* the slides lie in the input one after the other from the lines at, each
\* beginning with the input line at its place, and each frame being the run
\* of input lines from there on
LiesAt(at) ==
    \A k \in 1..Len(ps.slides) :
        /\ at[k] + Len(ps.slides[k]) - 1 <= Len(doc)
        /\ k > 1 => at[k] > at[k - 1]
        /\ ps.slides[k][1] = doc[at[k]]
        /\ FrameUnit(ps.slides[k]) =>
              /\ ps.slides[k] = SubSeq(doc, at[k], at[k] + Len(ps.slides[k]) - 1)
              /\ k > 1 => at[k] >= at[k - 1] + Len(ps.slides[k - 1])

\* C21: on an input without errors every frame among the returned slides is
\* the run of input lines from its \begin{frame} to its \end{frame}, none left
\* out, and the slides are in the order of the input.
C21_LineConservation ==
    (Returned /\ ps.log = <<>>) =>
        \E at \in [1..Len(ps.slides) -> 1..Len(doc)] : LiesAt(at)

====
